---- MODULE Spec2Model ----
(***************************************************************************)
(* EcoPort waste-pickup backend (src/backend/server.py): the pickup        *)
(* request lifecycle, the driver registry and the rating subsystem, as a   *)
(* state machine over the three MongoDB collections the handlers use.      *)
(*                                                                         *)
(* Every handler is a step function  handler(db, c, t)  over the database  *)
(* value db, the call c (its arguments, its position pc and what it holds  *)
(* in local variables) and the clock reading t.  One step runs the handler *)
(* from one database await to the next, so a step holds exactly one        *)
(* database operation.  The sequential specifications run a handler to its *)
(* end in one action; the concurrent one interleaves the steps of the      *)
(* calls in flight.                                                        *)
(*                                                                         *)
(* Representation.  Optional[T] is a sequence of length <= 1 (None = <<>>).*)
(* Ids (uuid4 strings in the code) are the position of the document in its *)
(* collection.  A location is represented by its haversine distance from   *)
(* the service center in hundredths of a km; money is in hundredths.       *)
(* Fields that no handler reads after storing them (waste_image,           *)
(* user_contact, payment_method, address, the drivers' name/phone/vehicle, *)
(* the "at" stamps of history entries, feedback) are left out.  Patch      *)
(* fields carry a value of their declared type or are unset; an explicit   *)
(* null is modelled for actual_cost, the field whose null the handler      *)
(* tests (line 374).                                                       *)
(***************************************************************************)
EXTENDS Integers, Sequences, FiniteSets, Bags, TLC

VARIABLES
    pickups,        \* db.pickup_requests: sequence of documents, id = index
    drivers,        \* db.drivers: sequence of documents, id = index
    ratings,        \* db.ratings: sequence of documents, in insertion order
    now,            \* datetime.utcnow(), seconds on a logical clock
    utcoffset,      \* seconds the server's local time is ahead of UTC
    quote,          \* the last direct application of calculate_cost, if any
    calls,          \* the bag of handler calls in flight (concurrent specification)
    started,        \* number of interleaved calls started so far
    n_transitions,  \* history: per pickup, calls answered 200 that changed status
    n_cost_edits,   \* history: per pickup, updates answered 200 with a non-null cost
    released        \* history: set_status made Available a driver of an active pickup

vars == <<pickups, drivers, ratings, now, utcoffset, quote, calls, started,
          n_transitions, n_cost_edits, released>>

----------------------------------------------------------------------------
(* Bounds of the model *)

MaxDocuments == 3
MaxPriceHist == 2
MaxCalls == 2
MaxStarted == 4
MaxTicks == 1

----------------------------------------------------------------------------
(* Optional values *)

None == <<>>
Some(v) == <<v>>

----------------------------------------------------------------------------
(* Enums, lines 74-106 *)

PickupStatus == {"Pending", "Approved", "Assigned", "Completed"}
WasteType == {"Organic", "Plastic", "Metal", "E-Waste", "Mixed"}
Quantity == {"Small", "Medium", "Large", "Bulk"}
DriverStatus == {"Available", "Busy", "Offline"}
PaymentStatus == {"Pending", "Paid", "Failed"}

(* Configuration and pricing constants, lines 29-50.  Factors are in tenths. *)
SERVICE_RADIUS_KM == 20
RATE_PER_KM == 10
BASE_RATE == 50
Hundredths == 100

VOLUME_FACTORS ==
    [q \in Quantity |->
        CASE q = "Small" -> 10 [] q = "Medium" -> 15
          [] q = "Large" -> 20 [] q = "Bulk" -> 30]

WASTE_SURCHARGES ==
    [w \in WasteType |->
        CASE w = "Organic" -> 10 [] w = "Plastic" -> 10 [] w = "Metal" -> 10
          [] w = "E-Waste" -> 12 [] w = "Mixed" -> 11]

(* dict.get(key, 1.0) *)
(* a faulty default: a key that is not in the table weighs nothing *)
FactorOf_zero(table, key) == IF key \in DOMAIN table THEN table[key] ELSE 0

FactorOf(table, key) == IF key \in DOMAIN table THEN table[key] ELSE 10

(* haversine_distance: the great-circle distance of a location from the   *)
(* service center.  A location is represented by that distance (hundredths*)
(* of a km), so the trigonometry is the representation itself.            *)
haversine_distance(location) == location.km100

(* calculate_cost: ((d * RATE_PER_KM) + (vf * BASE_RATE)) * surcharge,     *)
(* rounded to 2 decimals.  With d in hundredths and the factors in tenths  *)
(* the product is in 1/10000; round() to hundredths, half to even.         *)
RoundHalfEven(n, unit) ==
    LET q == n \div unit
        r == n % unit
    IN  IF 2 * r > unit \/ (2 * r = unit /\ q % 2 = 1) THEN q + 1 ELSE q

(* a faulty formula: the waste surcharge is left out *)
calculate_cost_without_surcharge(distance_km100, quantity, waste_type) ==
    LET volume_factor == FactorOf(VOLUME_FACTORS, quantity)
        total == ((distance_km100 * RATE_PER_KM * 10)
                    + (volume_factor * BASE_RATE * Hundredths)) * 10
    IN  RoundHalfEven(total, Hundredths)

calculate_cost(distance_km100, quantity, waste_type) ==
    LET volume_factor == FactorOf(VOLUME_FACTORS, quantity)
        surcharge == FactorOf(WASTE_SURCHARGES, waste_type)
        total == ((distance_km100 * RATE_PER_KM * 10)
                    + (volume_factor * BASE_RATE * Hundredths)) * surcharge
    IN  RoundHalfEven(total, Hundredths)

----------------------------------------------------------------------------
(* Admin session tokens, lines 230-255 *)

TOKEN_TTL == 86400

(* datetime.timestamp() of a naive datetime (line 235): the datetime is    *)
(* read as local time, so the wall clock of UTC that utcnow() returned     *)
(* becomes an instant utcoffset seconds before it.                         *)
timestamp(naive) == naive - utcoffset

(* exp is a number, which the encoder stores as it is; the decoder         *)
(* compares it with the instant of the decode (verify_jwt_token).          *)
create_jwt_token(username, t) ==
    [sub |-> username, exp |-> timestamp(t) + TOKEN_TTL, signed |-> TRUE]

(* a faulty decode: the signature is not verified *)
verify_jwt_token_unverified(token, t) ==
    IF token.exp > t THEN Some(token) ELSE None

(* jwt.decode: a bad signature or an exp that has passed gives None *)
verify_jwt_token(token, t) ==
    IF token.signed /\ token.exp > t THEN Some(token) ELSE None

(* the admin's username, or None for the 401 *)
get_current_admin(token, t) ==
    LET payload == verify_jwt_token(token, t)
    IN  IF payload = None THEN None ELSE Some(payload[1].sub)

----------------------------------------------------------------------------
(* Documents *)

StatusHistoryEntry(status, by) == [status |-> status, by |-> by]
PriceHistoryEntry(actual_cost, by) == [actual_cost |-> actual_cost, by |-> by]

(* PickupRequest(...) as built by create_pickup_request, lines 124-142, 292-303 *)
PickupRequest(id, distance_km, estimated_cost, quantity, waste_type, t) ==
    [id |-> id,
     waste_type |-> waste_type,
     quantity |-> quantity,
     estimated_cost |-> estimated_cost,
     actual_cost |-> None,
     distance_km |-> distance_km,
     status |-> "Pending",
     notes |-> None,
     driver_id |-> None,
     payment_status |-> "Pending",
     status_history |-> <<StatusHistoryEntry("Pending", "user")>>,
     price_history |-> <<>>,
     created_at |-> t,
     updated_at |-> t]

(* Driver, lines 167-175: a new driver is Available; first a faulty        *)
(* default                                                                 *)
Driver_offline(id) == [id |-> id, status |-> "Offline"]

Driver(id) == [id |-> id, status |-> "Available"]

(* Rating, lines 183-188 *)
Rating(pickup_id, rating) == [pickup_id |-> pickup_id, rating |-> rating]

(* PickupRequestUpdate, lines 161-165: each field is unset (None) or set   *)
(* (Some(v)); a set actual_cost is itself Optional.                        *)
NoPatch == [status |-> None, actual_cost |-> None, notes |-> None,
            payment_status |-> None]

(* the $set document of update_one: the fields it names *)
NoUpdateData == [status |-> None, status_history |-> None, actual_cost |-> None,
                 price_history |-> None, notes |-> None, payment_status |-> None,
                 driver_id |-> None, updated_at |-> None]

Database(p, d, r) == [pickups |-> p, drivers |-> d, ratings |-> r]

(* find_one({'id': id}) *)
find_one(collection, id) ==
    IF id \in DOMAIN collection THEN Some(collection[id]) ELSE None

(* a faulty lookup: no rating is ever found *)
find_rating_none(collection, pickup_id) == None

(* db.ratings.find_one({'pickup_id': pickup_id}): the first match *)
find_rating(collection, pickup_id) ==
    LET hits == {i \in DOMAIN collection : collection[i].pickup_id = pickup_id}
    IN  IF hits = {} THEN None
        ELSE Some(collection[CHOOSE i \in hits : \A j \in hits : i <= j])

(* update_one({'id': id}, {'$set': update_data}) on a pickup request;     *)
(* first a faulty one, which also overwrites the estimate with the cost   *)
SetFields_repricing(doc, ud) ==
    [doc EXCEPT
        !.status = IF ud.status = None THEN @ ELSE ud.status[1],
        !.status_history = IF ud.status_history = None THEN @ ELSE ud.status_history[1],
        !.actual_cost = IF ud.actual_cost = None THEN @ ELSE ud.actual_cost[1],
        !.estimated_cost = IF ud.actual_cost = None \/ ud.actual_cost[1] = None
                           THEN @ ELSE ud.actual_cost[1][1],
        !.price_history = IF ud.price_history = None THEN @ ELSE ud.price_history[1],
        !.notes = IF ud.notes = None THEN @ ELSE ud.notes,
        !.payment_status = IF ud.payment_status = None THEN @ ELSE ud.payment_status[1],
        !.driver_id = IF ud.driver_id = None THEN @ ELSE ud.driver_id,
        !.updated_at = IF ud.updated_at = None THEN @ ELSE ud.updated_at[1]]

SetFields(doc, ud) ==
    [doc EXCEPT
        !.status = IF ud.status = None THEN @ ELSE ud.status[1],
        !.status_history = IF ud.status_history = None THEN @ ELSE ud.status_history[1],
        !.actual_cost = IF ud.actual_cost = None THEN @ ELSE ud.actual_cost[1],
        !.price_history = IF ud.price_history = None THEN @ ELSE ud.price_history[1],
        !.notes = IF ud.notes = None THEN @ ELSE ud.notes,
        !.payment_status = IF ud.payment_status = None THEN @ ELSE ud.payment_status[1],
        !.driver_id = IF ud.driver_id = None THEN @ ELSE ud.driver_id,
        !.updated_at = IF ud.updated_at = None THEN @ ELSE ud.updated_at[1]]

(* a faulty filter: the $set reaches every document of the collection *)
update_one_unfiltered(collection, id, ud) ==
    [i \in DOMAIN collection |-> SetFields(collection[i], ud)]

update_one(collection, id, ud) ==
    IF id \in DOMAIN collection
    THEN [collection EXCEPT ![id] = SetFields(@, ud)]
    ELSE collection

----------------------------------------------------------------------------
(* Calls and responses *)

(* a response: the status code, the detail of an HTTPException, and the    *)
(* returned value where a property reads it                               *)
Response(status_code, detail) ==
    [status_code |-> status_code, detail |-> detail, body |-> None]
NoResponse == Response(0, "")

NoToken == [sub |-> "", exp |-> 0, signed |-> FALSE]

(* A call of a handler: its arguments, its position, its local variables.  *)
(* Every call has every field, the ones its handler does not use at their  *)
(* defaults.                                                               *)
NewCall(op) ==
    [op |-> op, pc |-> "start", token |-> NoToken,
     request_id |-> 0, driver_id |-> 0, patch |-> NoPatch, status |-> "",
     rating |-> 0, location |-> [km100 |-> 0], quantity |-> "", waste_type |-> "",
     username |-> "", password |-> "", counts |-> <<>>,
     admin |-> None, update_data |-> NoUpdateData,
     resp |-> NoResponse]

Goto(db, c, pc) == [db |-> db, call |-> [c EXCEPT !.pc = pc]]

(* return, or raise HTTPException(status_code, detail) *)
Done(db, c, status_code, detail) ==
    [db |-> db,
     call |-> [c EXCEPT !.pc = "done", !.resp = Response(status_code, detail)]]

(* return body *)
Reply(db, c, body) ==
    [db |-> db,
     call |-> [c EXCEPT !.pc = "done",
                        !.resp = [Response(200, "OK") EXCEPT !.body = Some(body)]]]

(* the 422 of FastAPI's request validation: the handler body never runs *)
Rejected(db, c) == Done(db, c, 422, "validation error")

----------------------------------------------------------------------------
(* create_pickup_request, lines 272-307 *)

(* a faulty area check: a location on the edge of the area is refused *)
create_pickup_request_strict(db, c, t) ==
    LET distance_km == haversine_distance(c.location)
    IN  IF distance_km >= SERVICE_RADIUS_KM * Hundredths
        THEN Done(db, c, 400, "outside our service area")
        ELSE LET estimated_cost == calculate_cost(distance_km, c.quantity, c.waste_type)
                 pickup == PickupRequest(Len(db.pickups) + 1, distance_km,
                                         estimated_cost, c.quantity, c.waste_type, t)
             IN  Done([db EXCEPT !.pickups = Append(@, pickup)], c, 200, "OK")

(* a faulty price: a surcharge per pickup request already stored *)
create_pickup_request_surge(db, c, t) ==
    LET distance_km == haversine_distance(c.location)
    IN  IF distance_km > SERVICE_RADIUS_KM * Hundredths
        THEN Done(db, c, 400, "outside our service area")
        ELSE LET estimated_cost == calculate_cost(distance_km, c.quantity, c.waste_type)
                                        + Len(db.pickups)
                 pickup == PickupRequest(Len(db.pickups) + 1, distance_km,
                                         estimated_cost, c.quantity, c.waste_type, t)
             IN  Done([db EXCEPT !.pickups = Append(@, pickup)], c, 200, "OK")

create_pickup_request(db, c, t) ==
    LET distance_km == haversine_distance(c.location)
    IN  IF distance_km > SERVICE_RADIUS_KM * Hundredths
        THEN Done(db, c, 400, "outside our service area")
        ELSE LET estimated_cost == calculate_cost(distance_km, c.quantity, c.waste_type)
                 pickup == PickupRequest(Len(db.pickups) + 1, distance_km,
                                         estimated_cost, c.quantity, c.waste_type, t)
             IN  Done([db EXCEPT !.pickups = Append(@, pickup)], c, 200, "OK")

----------------------------------------------------------------------------
(* update_pickup_request, lines 332-392 *)

(* a faulty table: a Pending request may skip to Assigned *)
valid_transitions_with_skip(current_status) ==
    CASE current_status = "Pending" -> {"Approved", "Assigned"}
      [] current_status = "Approved" -> {"Assigned"}
      [] current_status = "Assigned" -> {"Completed"}
      [] OTHER -> {}

valid_transitions(current_status) ==
    CASE current_status = "Pending" -> {"Approved"}
      [] current_status = "Approved" -> {"Assigned"}
      [] current_status = "Assigned" -> {"Completed"}
      [] current_status = "Completed" -> {}
      [] OTHER -> {}

(* a faulty $set document: the new entry replaces the status history *)
UpdateData_overwriting(pickup, patch, username, t) ==
    [NoUpdateData EXCEPT
        !.status = patch.status,
        !.status_history =
            IF patch.status = None THEN None
            ELSE Some(<<StatusHistoryEntry(patch.status[1], username)>>),
        !.actual_cost = patch.actual_cost,
        !.price_history =
            IF patch.actual_cost # None /\ patch.actual_cost[1] # None
            THEN Some(pickup.price_history
                        \o <<PriceHistoryEntry(patch.actual_cost[1][1], username)>>)
            ELSE None,
        !.notes = patch.notes,
        !.payment_status = patch.payment_status,
        !.updated_at = Some(t)]

(* lines 344-384: update.dict(exclude_unset=True) with the two histories   *)
(* and the stamp added                                                     *)
UpdateData(pickup, patch, username, t) ==
    [NoUpdateData EXCEPT
        !.status = patch.status,
        !.status_history =
            IF patch.status = None THEN None
            ELSE Some(pickup.status_history
                        \o <<StatusHistoryEntry(patch.status[1], username)>>),
        !.actual_cost = patch.actual_cost,
        !.price_history =
            IF patch.actual_cost # None /\ patch.actual_cost[1] # None
            THEN Some(pickup.price_history
                        \o <<PriceHistoryEntry(patch.actual_cost[1][1], username)>>)
            ELSE None,
        !.notes = patch.notes,
        !.payment_status = patch.payment_status,
        !.updated_at = Some(t)]

(* a faulty handler: a patch whose status is refused still has its other   *)
(* fields written before the 400 goes out                                  *)
update_pickup_request_partial(db, c, t) ==
    CASE c.pc = "start" ->
            LET admin == get_current_admin(c.token, t)
                existing == find_one(db.pickups, c.request_id)
                rest == [c.patch EXCEPT !.status = None]
            IN  IF admin = None
                THEN Done(db, c, 401, "Invalid or expired token")
                ELSE IF existing = None
                THEN Done(db, c, 404, "Pickup request not found")
                ELSE IF c.patch.status # None
                        /\ c.patch.status[1] \notin valid_transitions(existing[1].status)
                THEN Done([db EXCEPT !.pickups =
                                update_one(@, c.request_id,
                                           UpdateData(existing[1], rest, admin[1], t))],
                          c, 400, "Invalid status transition")
                ELSE Goto(db, [c EXCEPT !.admin = admin,
                                        !.update_data =
                                            UpdateData(existing[1], c.patch, admin[1], t)],
                          "write")
      [] c.pc = "write" ->
            Goto([db EXCEPT !.pickups = update_one(@, c.request_id, c.update_data)],
                 c, "reread")
      [] c.pc = "reread" -> Done(db, c, 200, "OK")

(* a faulty write: completing a pickup makes its driver Available *)
update_pickup_request_releasing(db, c, t) ==
    CASE c.pc = "start" ->
            LET admin == get_current_admin(c.token, t)
                existing == find_one(db.pickups, c.request_id)
            IN  IF admin = None
                THEN Done(db, c, 401, "Invalid or expired token")
                ELSE IF existing = None
                THEN Done(db, c, 404, "Pickup request not found")
                ELSE IF c.patch.status # None
                        /\ c.patch.status[1] \notin valid_transitions(existing[1].status)
                THEN Done(db, c, 400, "Invalid status transition")
                ELSE Goto(db, [c EXCEPT !.admin = admin,
                                        !.update_data =
                                            UpdateData(existing[1], c.patch, admin[1], t)],
                          "write")
      [] c.pc = "write" ->
            LET driver_id == db.pickups[c.request_id].driver_id
                completed == c.update_data.status = Some("Completed") /\ driver_id # None
            IN  Goto([db EXCEPT
                        !.pickups = update_one(@, c.request_id, c.update_data),
                        !.drivers = IF completed
                                    THEN [@ EXCEPT ![driver_id[1]].status = "Available"]
                                    ELSE @],
                     c, "reread")
      [] c.pc = "reread" -> Done(db, c, 200, "OK")

update_pickup_request(db, c, t) ==
    CASE c.pc = "start" ->
            LET admin == get_current_admin(c.token, t)
                existing == find_one(db.pickups, c.request_id)
            IN  IF admin = None
                THEN Done(db, c, 401, "Invalid or expired token")
                ELSE IF existing = None
                THEN Done(db, c, 404, "Pickup request not found")
                ELSE IF c.patch.status # None
                        /\ c.patch.status[1] \notin valid_transitions(existing[1].status)
                THEN Done(db, c, 400, "Invalid status transition")
                ELSE Goto(db, [c EXCEPT !.admin = admin,
                                        !.update_data =
                                            UpdateData(existing[1], c.patch, admin[1], t)],
                          "write")
      [] c.pc = "write" ->
            Goto([db EXCEPT !.pickups = update_one(@, c.request_id, c.update_data)],
                 c, "reread")
      [] c.pc = "reread" -> Done(db, c, 200, "OK")

----------------------------------------------------------------------------
(* assign_driver, lines 394-445 *)

(* a faulty check: an Offline driver is the only one refused *)
driver_available_or_busy(driver) == driver.status # "Offline"

(* lines 415-417: only an Available driver is assigned *)
driver_available(driver) == driver.status = "Available"

(* a faulty $set document: the status is set and the history left alone *)
AssignData_without_history(existing_history, driver_id, username, t) ==
    [NoUpdateData EXCEPT
        !.driver_id = Some(driver_id),
        !.status = Some("Assigned"),
        !.updated_at = Some(t)]

(* lines 419-435: the $set document of the pickup request *)
(* a faulty write: the driver is not recorded on the pickup *)
AssignData_without_driver(existing_history, driver_id, username, t) ==
    [NoUpdateData EXCEPT
        !.status = Some("Assigned"),
        !.status_history =
            Some(existing_history \o <<StatusHistoryEntry("Assigned", username)>>),
        !.updated_at = Some(t)]

(* a faulty append: the entry is added twice *)
AssignData_duplicating(existing_history, driver_id, username, t) ==
    [NoUpdateData EXCEPT
        !.driver_id = Some(driver_id),
        !.status = Some("Assigned"),
        !.status_history =
            Some(existing_history \o <<StatusHistoryEntry("Assigned", username),
                                       StatusHistoryEntry("Assigned", username)>>),
        !.updated_at = Some(t)]

AssignData(existing_history, driver_id, username, t) ==
    [NoUpdateData EXCEPT
        !.driver_id = Some(driver_id),
        !.status = Some("Assigned"),
        !.status_history =
            Some(existing_history \o <<StatusHistoryEntry("Assigned", username)>>),
        !.updated_at = Some(t)]

(* a faulty write: the driver's document is left as it was *)
set_driver_status_dropped(collection, id, status) == collection

(* db.drivers.update_one({'id': id}, {'$set': {'status': status}}),        *)
(* lines 439-442 and 485-488                                               *)
set_driver_status(collection, id, status) ==
    IF id \in DOMAIN collection
    THEN [collection EXCEPT ![id].status = status]
    ELSE collection

(* a faulty test: an Assigned pickup may be given a driver again *)
assign_driver_again(db, c, t) ==
    CASE c.pc = "start" ->
            LET admin == get_current_admin(c.token, t)
                pickup == find_one(db.pickups, c.request_id)
            IN  IF admin = None
                THEN Done(db, c, 401, "Invalid or expired token")
                ELSE IF pickup = None
                THEN Done(db, c, 404, "Pickup request not found")
                ELSE IF pickup[1].status \notin {"Approved", "Assigned"}
                THEN Done(db, c, 400, "Can only assign driver to approved requests")
                ELSE \* pickup_obj.status_history is what the handler uses later
                     Goto(db, [c EXCEPT !.admin = admin,
                                        !.update_data.status_history =
                                            Some(pickup[1].status_history)],
                          "find_driver")
      [] c.pc = "find_driver" ->
            LET driver == find_one(db.drivers, c.driver_id)
                existing_history == c.update_data.status_history[1]
            IN  IF driver = None
                THEN Done(db, c, 404, "Driver not found")
                ELSE IF ~driver_available(driver[1])
                THEN Done(db, c, 400, "Driver is not available")
                ELSE Goto(db,
                          [c EXCEPT !.update_data =
                              AssignData(existing_history, c.driver_id, c.admin[1], t)],
                          "write_pickup")
      [] c.pc = "write_pickup" ->
            Goto([db EXCEPT !.pickups = update_one(@, c.request_id, c.update_data)],
                 c, "write_driver")
      [] c.pc = "write_driver" ->
            Goto([db EXCEPT !.drivers = set_driver_status(@, c.driver_id, "Busy")],
                 c, "reread")
      [] c.pc = "reread" -> Done(db, c, 200, "OK")

assign_driver(db, c, t) ==
    CASE c.pc = "start" ->
            LET admin == get_current_admin(c.token, t)
                pickup == find_one(db.pickups, c.request_id)
            IN  IF admin = None
                THEN Done(db, c, 401, "Invalid or expired token")
                ELSE IF pickup = None
                THEN Done(db, c, 404, "Pickup request not found")
                ELSE IF pickup[1].status # "Approved"
                THEN Done(db, c, 400, "Can only assign driver to approved requests")
                ELSE \* pickup_obj.status_history is what the handler uses later
                     Goto(db, [c EXCEPT !.admin = admin,
                                        !.update_data.status_history =
                                            Some(pickup[1].status_history)],
                          "find_driver")
      [] c.pc = "find_driver" ->
            LET driver == find_one(db.drivers, c.driver_id)
                existing_history == c.update_data.status_history[1]
            IN  IF driver = None
                THEN Done(db, c, 404, "Driver not found")
                ELSE IF ~driver_available(driver[1])
                THEN Done(db, c, 400, "Driver is not available")
                ELSE Goto(db,
                          [c EXCEPT !.update_data =
                              AssignData(existing_history, c.driver_id, c.admin[1], t)],
                          "write_pickup")
      [] c.pc = "write_pickup" ->
            Goto([db EXCEPT !.pickups = update_one(@, c.request_id, c.update_data)],
                 c, "write_driver")
      [] c.pc = "write_driver" ->
            Goto([db EXCEPT !.drivers = set_driver_status(@, c.driver_id, "Busy")],
                 c, "reread")
      [] c.pc = "reread" -> Done(db, c, 200, "OK")

----------------------------------------------------------------------------
(* create_driver, lines 448-454 *)

create_driver(db, c, t) ==
    IF get_current_admin(c.token, t) = None
    THEN Done(db, c, 401, "Invalid or expired token")
    ELSE Done([db EXCEPT !.drivers = Append(@, Driver(Len(@) + 1))], c, 200, "OK")

(* update_driver_status, lines 474-491; first a faulty one, which refuses *)
(* to change a driver that an active pickup request names                 *)
update_driver_status_guarded(db, c, t) ==
    CASE c.pc = "start" ->
            IF get_current_admin(c.token, t) = None
            THEN Done(db, c, 401, "Invalid or expired token")
            ELSE IF find_one(db.drivers, c.driver_id) = None
            THEN Done(db, c, 404, "Driver not found")
            ELSE IF \E i \in DOMAIN db.pickups :
                        /\ db.pickups[i].driver_id = Some(c.driver_id)
                        /\ db.pickups[i].status # "Completed"
            THEN Done(db, c, 400, "Driver is on an active pickup")
            ELSE Goto(db, c, "write")
      [] c.pc = "write" ->
            Goto([db EXCEPT !.drivers = set_driver_status(@, c.driver_id, c.status)],
                 c, "reread")
      [] c.pc = "reread" -> Done(db, c, 200, "OK")

update_driver_status(db, c, t) ==
    CASE c.pc = "start" ->
            IF get_current_admin(c.token, t) = None
            THEN Done(db, c, 401, "Invalid or expired token")
            ELSE IF find_one(db.drivers, c.driver_id) = None
            THEN Done(db, c, 404, "Driver not found")
            ELSE Goto(db, c, "write")
      [] c.pc = "write" ->
            Goto([db EXCEPT !.drivers = set_driver_status(@, c.driver_id, c.status)],
                 c, "reread")
      [] c.pc = "reread" -> Done(db, c, 200, "OK")

----------------------------------------------------------------------------
(* create_rating, lines 494-512; RatingCreate's Field(ge=1, le=5), line 192 *)

rating_in_range(rating) == rating >= 1 /\ rating <= 5

(* a faulty handler: a pickup is rated whatever its status *)
create_rating_any_status(db, c, t) ==
    CASE c.pc = "start" ->
            LET pickup == find_one(db.pickups, c.request_id)
            IN  IF ~rating_in_range(c.rating)
                THEN Rejected(db, c)
                ELSE IF pickup = None
                THEN Done(db, c, 404, "Pickup request not found")
                ELSE Goto(db, c, "find_rating")
      [] c.pc = "find_rating" ->
            IF find_rating(db.ratings, c.request_id) # None
            THEN Done(db, c, 400, "This pickup has already been rated")
            ELSE Goto(db, c, "insert")
      [] c.pc = "insert" ->
            Done([db EXCEPT !.ratings = Append(@, Rating(c.request_id, c.rating))],
                 c, 200, "OK")

create_rating(db, c, t) ==
    CASE c.pc = "start" ->
            LET pickup == find_one(db.pickups, c.request_id)
            IN  IF ~rating_in_range(c.rating)
                THEN Rejected(db, c)
                ELSE IF pickup = None
                THEN Done(db, c, 404, "Pickup request not found")
                ELSE IF pickup[1].status # "Completed"
                THEN Done(db, c, 400, "Can only rate completed pickups")
                ELSE Goto(db, c, "find_rating")
      [] c.pc = "find_rating" ->
            IF find_rating(db.ratings, c.request_id) # None
            THEN Done(db, c, 400, "This pickup has already been rated")
            ELSE Goto(db, c, "insert")
      [] c.pc = "insert" ->
            Done([db EXCEPT !.ratings = Append(@, Rating(c.request_id, c.rating))],
                 c, 200, "OK")

----------------------------------------------------------------------------
(* calculate_cost_preview, lines 540-565: no database operation *)

(* a faulty preview: the priced request is stored as create would store it *)
calculate_cost_preview_persisting(db, c, t) ==
    LET distance_km == haversine_distance(c.location)
    IN  IF distance_km > SERVICE_RADIUS_KM * Hundredths
        THEN Reply(db, c, [in_service_area |-> FALSE,
                           distance_km |-> None, estimated_cost |-> None])
        ELSE LET cost == calculate_cost(distance_km, c.quantity, c.waste_type)
                 pickup == PickupRequest(Len(db.pickups) + 1, distance_km, cost,
                                         c.quantity, c.waste_type, t)
             IN  Reply([db EXCEPT !.pickups = Append(@, pickup)], c,
                       [in_service_area |-> TRUE,
                        distance_km |-> Some(distance_km),
                        estimated_cost |-> Some(cost)])

calculate_cost_preview(db, c, t) ==
    LET distance_km == haversine_distance(c.location)
    IN  IF distance_km > SERVICE_RADIUS_KM * Hundredths
        THEN Reply(db, c, [in_service_area |-> FALSE,
                           distance_km |-> None, estimated_cost |-> None])
        ELSE LET cost == calculate_cost(distance_km, c.quantity, c.waste_type)
             IN  Reply(db, c, [in_service_area |-> TRUE,
                               distance_km |-> Some(distance_km),
                               estimated_cost |-> Some(cost)])

----------------------------------------------------------------------------
(* The lookups by id, lines 324-330, 466-472 and 514-520: one find_one *)

get_pickup_request(db, c, t) ==
    LET request == find_one(db.pickups, c.request_id)
    IN  IF request = None
        THEN Done(db, c, 404, "Pickup request not found")
        ELSE Reply(db, c, request[1])

get_driver(db, c, t) ==
    LET driver == find_one(db.drivers, c.driver_id)
    IN  IF driver = None
        THEN Done(db, c, 404, "Driver not found")
        ELSE Reply(db, c, driver[1])

(* a faulty lookup: a missing rating is answered 200 with null *)
get_rating_null(db, c, t) ==
    Reply(db, c, find_rating(db.ratings, c.request_id))

get_rating(db, c, t) ==
    LET rating == find_rating(db.ratings, c.request_id)
    IN  IF rating = None
        THEN Done(db, c, 404, "Rating not found")
        ELSE Reply(db, c, rating[1])

----------------------------------------------------------------------------
(* get_stats, lines 523-537: four count_documents, one per status in the   *)
(* order of the code, each a database operation of its own; the counts     *)
(* taken so far are the handler's local variables.                         *)

StatsOrder == <<"Pending", "Approved", "Assigned", "Completed">>

(* a faulty count: the filter is ignored *)
count_documents_unfiltered(collection, status) == Len(collection)

count_documents(collection, status) ==
    Cardinality({i \in DOMAIN collection : collection[i].status = status})

get_stats(db, c, t) ==
    LET counts == Append(c.counts,
                         count_documents(db.pickups, StatsOrder[Len(c.counts) + 1]))
    IN  IF Len(counts) < Len(StatsOrder)
        THEN Goto(db, [c EXCEPT !.counts = counts], "count")
        ELSE Reply(db, [c EXCEPT !.counts = counts],
                   [pending |-> counts[1], approved |-> counts[2],
                    assigned |-> counts[3], completed |-> counts[4],
                    total |-> counts[1] + counts[2] + counts[3] + counts[4]])

----------------------------------------------------------------------------
(* login, lines 258-264, and the fixed credential pair, lines 53-56 *)

ADMIN_CREDENTIALS == [username |-> "admin", password |-> "admin123"]

login(db, c, t) ==
    IF c.username = ADMIN_CREDENTIALS.username /\ c.password = ADMIN_CREDENTIALS.password
    THEN Reply(db, c, [access_token |-> create_jwt_token(c.username, t)])
    ELSE Done(db, c, 401, "Invalid credentials")

----------------------------------------------------------------------------
(* One step of a call, and a call run to its end *)

Handler(db, c, t) ==
    CASE c.op = "create_pickup_request" -> create_pickup_request(db, c, t)
      [] c.op = "update_pickup_request" -> update_pickup_request(db, c, t)
      [] c.op = "assign_driver" -> assign_driver(db, c, t)
      [] c.op = "create_driver" -> create_driver(db, c, t)
      [] c.op = "update_driver_status" -> update_driver_status(db, c, t)
      [] c.op = "create_rating" -> create_rating(db, c, t)
      [] c.op = "calculate_cost_preview" -> calculate_cost_preview(db, c, t)
      [] c.op = "login" -> login(db, c, t)
      [] c.op = "get_pickup_request" -> get_pickup_request(db, c, t)
      [] c.op = "get_driver" -> get_driver(db, c, t)
      [] c.op = "get_rating" -> get_rating(db, c, t)
      [] c.op = "get_stats" -> get_stats(db, c, t)

RECURSIVE RunToEnd(_, _, _)
RunToEnd(db, c, t) ==
    IF c.pc = "done" THEN [db |-> db, call |-> c]
    ELSE LET r == Handler(db, c, t) IN RunToEnd(r.db, r.call, t)

----------------------------------------------------------------------------
(* The inputs the specifications draw from *)

AdminToken == create_jwt_token("admin", 0)
ForgedToken == [AdminToken EXCEPT !.signed = FALSE]
ExpiredToken == [AdminToken EXCEPT !.exp = 0]
Tokens == {AdminToken, ForgedToken, ExpiredToken}

FleetTokens == {AdminToken}
Scores == 0..6
FleetScores == {0, 5}
Costs == {100, 250}

StatusPatches == {[NoPatch EXCEPT !.status = Some(s)] : s \in PickupStatus}

Patches ==
    [status : {None} \cup {Some(s) : s \in PickupStatus},
     actual_cost : {None, Some(None)} \cup {Some(Some(v)) : v \in Costs},
     notes : {None, Some("note")},
     payment_status : {None, Some("Paid")}]

Location(km100) == [km100 |-> km100]
Radius100 == SERVICE_RADIUS_KM * Hundredths

(* one location in the area (on its edge) and one just outside *)
FleetInputs ==
    {[location |-> Location(d), quantity |-> "Medium", waste_type |-> "Plastic"] :
        d \in {Radius100, Radius100 + 1}}

CreateInputs ==
    {[location |-> Location(0), quantity |-> "Medium", waste_type |-> "Plastic"],
     [location |-> Location(1000), quantity |-> "Bulk", waste_type |-> "E-Waste"],
     [location |-> Location(Radius100 + 1), quantity |-> "Small",
      waste_type |-> "Organic"]}

CreatePickupCall(in) ==
    [NewCall("create_pickup_request") EXCEPT
        !.location = in.location, !.quantity = in.quantity,
        !.waste_type = in.waste_type]
UpdateCall(id, patch, token) ==
    [NewCall("update_pickup_request") EXCEPT
        !.request_id = id, !.patch = patch, !.token = token]
AssignCall(id, d, token) ==
    [NewCall("assign_driver") EXCEPT
        !.request_id = id, !.driver_id = d, !.token = token]
CreateDriverCall(token) == [NewCall("create_driver") EXCEPT !.token = token]
DriverStatusCall(d, status, token) ==
    [NewCall("update_driver_status") EXCEPT
        !.driver_id = d, !.status = status, !.token = token]
RatingCall(id, score) ==
    [NewCall("create_rating") EXCEPT !.request_id = id, !.rating = score]
GetPickupCall(id) == [NewCall("get_pickup_request") EXCEPT !.request_id = id]
GetDriverCall(d) == [NewCall("get_driver") EXCEPT !.driver_id = d]
GetRatingCall(id) == [NewCall("get_rating") EXCEPT !.request_id = id]
StatsCall == NewCall("get_stats")
LoginCall(username, password) ==
    [NewCall("login") EXCEPT !.username = username, !.password = password]
CostPreviewCall(in) ==
    [NewCall("calculate_cost_preview") EXCEPT
        !.location = in.location, !.quantity = in.quantity,
        !.waste_type = in.waste_type]

----------------------------------------------------------------------------
(* State *)

Db == Database(pickups, drivers, ratings)

(* the ids a caller may send: the stored ones and one that is not stored *)
RequestIds == 1..(Len(pickups) + 1)
DriverIds == 1..(Len(drivers) + 1)

Active(p) == p.status # "Completed"

(* the active pickup requests that name driver d *)
ActiveFor(d) == {i \in DOMAIN pickups : Active(pickups[i]) /\ pickups[i].driver_id = Some(d)}

(* The time zones a server of the session specification may run in: UTC  *)
(* and twelve hours ahead of it.                                           *)
UtcOffsets == {0, 12 * 3600}

Start ==
    /\ pickups = <<>>
    /\ drivers = <<>>
    /\ ratings = <<>>
    /\ now = 0
    /\ quote = None
    /\ calls = EmptyBag
    /\ started = 0
    /\ n_transitions = <<>>
    /\ n_cost_edits = <<>>
    /\ released = FALSE

(* a server whose local time is UTC *)
Init == Start /\ utcoffset = 0

(* a server in any of the time zones *)
InitAuth == Start /\ utcoffset \in UtcOffsets

Bump(counts, id) == [counts EXCEPT ![id] = @ + 1]

(* A call c has ended as c.resp with the database as db: the collections   *)
(* are the handler's, the history variables record what was answered 200.  *)
Finish(db, c) ==
    LET ok == c.resp.status_code = 200
        created == ok /\ c.op = "create_pickup_request"
        moved == ok /\ (c.op = "assign_driver"
                        \/ (c.op = "update_pickup_request" /\ c.patch.status # None))
        priced == ok /\ c.op = "update_pickup_request"
                     /\ c.patch.actual_cost # None /\ c.patch.actual_cost[1] # None
        freed == ok /\ c.op = "update_driver_status" /\ c.status = "Available"
                    /\ ActiveFor(c.driver_id) # {}
    IN  /\ pickups' = db.pickups
        /\ drivers' = db.drivers
        /\ ratings' = db.ratings
        /\ n_transitions' = IF created THEN Append(n_transitions, 0)
                            ELSE IF moved THEN Bump(n_transitions, c.request_id)
                            ELSE n_transitions
        /\ n_cost_edits' = IF created THEN Append(n_cost_edits, 0)
                           ELSE IF priced THEN Bump(n_cost_edits, c.request_id)
                           ELSE n_cost_edits
        /\ released' = (released \/ freed)

(* The whole handler in one step: no other call overlaps it. *)
Call(c) ==
    /\ LET r == RunToEnd(Db, c, now) IN Finish(r.db, r.call)
    /\ UNCHANGED <<now, utcoffset, quote, calls, started>>

(* MaxPriceHist bounds the price history: no further priced patch is sent  *)
(* to a pickup whose price history is full.                                *)
WithinPriceBound(id, patch) ==
    (patch.actual_cost # None /\ patch.actual_cost[1] # None /\ id \in DOMAIN pickups)
        => Len(pickups[id].price_history) < MaxPriceHist

CreatePickup(inputs, limit) ==
    \E in \in inputs :
        /\ calls = EmptyBag
        /\ Len(pickups) < limit
        /\ Call(CreatePickupCall(in))

UpdatePickup(ids, patches, tokens) ==
    \E id \in ids, patch \in patches, token \in tokens :
        /\ calls = EmptyBag
        /\ WithinPriceBound(id, patch)
        /\ Call(UpdateCall(id, patch, token))

AssignDriver(ids, tokens) ==
    \E id \in ids, d \in DriverIds, token \in tokens :
        /\ calls = EmptyBag
        /\ Call(AssignCall(id, d, token))

CreateDriver(tokens, limit) ==
    \E token \in tokens :
        /\ calls = EmptyBag
        /\ Len(drivers) < limit
        /\ Call(CreateDriverCall(token))

UpdateDriverStatus(tokens) ==
    \E d \in DriverIds, status \in DriverStatus, token \in tokens :
        /\ calls = EmptyBag
        /\ Call(DriverStatusCall(d, status, token))

CreateRating(scores) ==
    \E id \in RequestIds, score \in scores :
        /\ calls = EmptyBag
        /\ Call(RatingCall(id, score))

GetStats ==
    /\ calls = EmptyBag
    /\ Call(StatsCall)

GetPickup ==
    \E id \in RequestIds :
        /\ calls = EmptyBag
        /\ Call(GetPickupCall(id))

GetDriver ==
    \E d \in DriverIds :
        /\ calls = EmptyBag
        /\ Call(GetDriverCall(d))

GetRating ==
    \E id \in RequestIds :
        /\ calls = EmptyBag
        /\ Call(GetRatingCall(id))

CostPreview(inputs) ==
    \E in \in inputs :
        /\ calls = EmptyBag
        /\ Call(CostPreviewCall(in))

(* The fleet: pickup requests and drivers, MaxDocuments of them in all,    *)
(* patches that carry a status, handlers that do not overlap.              *)
Next ==
    \/ CreatePickup(FleetInputs, MaxDocuments - Len(drivers))
    \/ UpdatePickup(RequestIds, StatusPatches, FleetTokens)
    \/ AssignDriver(RequestIds, FleetTokens)
    \/ CreateDriver(FleetTokens, MaxDocuments - Len(pickups))
    \/ UpdateDriverStatus(FleetTokens)
    \/ CreateRating(FleetScores)
    \/ GetStats

Spec == Init /\ [][Next]_vars

(* Overlapping handlers.  Begin runs a call up to its second database     *)
(* operation (a call does nothing another call can see before its first   *)
(* one) and puts it among the calls in flight unless it has ended by      *)
(* then; Step runs a call in flight from one database operation to the    *)
(* next.  MaxCalls bounds the calls in flight, MaxStarted the calls that   *)
(* were ever in flight.                                                    *)
SetDb(db) ==
    /\ pickups' = db.pickups
    /\ drivers' = db.drivers
    /\ ratings' = db.ratings

Begin(c, pickup_limit, driver_limit) ==
    /\ c.op = "create_pickup_request" => Len(pickups) < pickup_limit
    /\ c.op = "create_driver" => Len(drivers) < driver_limit
    /\ c.op = "update_pickup_request" => WithinPriceBound(c.request_id, c.patch)
    /\ LET r == Handler(Db, c, now)
       IN  IF r.call.pc = "done"
           THEN Finish(r.db, r.call) /\ UNCHANGED <<now, utcoffset, quote, calls, started>>
           ELSE /\ BagCardinality(calls) < MaxCalls
                /\ started < MaxStarted
                /\ SetDb(r.db)
                /\ calls' = calls (+) SetToBag({r.call})
                /\ started' = started + 1
                /\ UNCHANGED <<now, utcoffset, quote, n_transitions, n_cost_edits, released>>

Step(c) ==
    /\ BagIn(c, calls)
    /\ LET r == Handler(Db, c, now)
           rest == calls (-) SetToBag({c})
       IN  IF r.call.pc = "done"
           THEN Finish(r.db, r.call) /\ calls' = rest /\ UNCHANGED <<now, utcoffset, quote, started>>
           ELSE /\ SetDb(r.db)
                /\ calls' = rest (+) SetToBag({r.call})
                /\ UNCHANGED <<now, utcoffset, quote, started, n_transitions, n_cost_edits, released>>

CostPatches == {[NoPatch EXCEPT !.actual_cost = Some(Some(100))]}

ConcCalls ==
    {CreatePickupCall(in) : in \in FleetInputs}
        \cup {CreateDriverCall(AdminToken)}
        \cup {UpdateCall(id, patch, AdminToken) :
                id \in 1..2, patch \in StatusPatches \cup CostPatches}
        \cup {AssignCall(id, 1, AdminToken) : id \in 1..2}

NextConc ==
    \/ \E c \in ConcCalls : Begin(c, 2, 1)
    \/ \E c \in BagToSet(calls) : Step(c)

SpecConc == Init /\ [][NextConc]_vars

(* Time passes: the clock moves on by half the life of a token. *)
Tick ==
    /\ now < MaxTicks * (TOKEN_TTL \div 2)
    /\ now' = now + (TOKEN_TTL \div 2)
    /\ UNCHANGED <<utcoffset, quote, pickups, drivers, ratings, calls, started,
                   n_transitions, n_cost_edits, released>>

(* One pickup request and one driver, every patch, a clock that moves:     *)
(* handlers that do not overlap.                                           *)
NextEdit ==
    \/ CreatePickup(CreateInputs, 1)
    \/ UpdatePickup({1}, Patches, {AdminToken})
    \/ AssignDriver({1}, {AdminToken})
    \/ CreateDriver({AdminToken}, 1)
    \/ Tick

SpecEdit == Init /\ [][NextEdit]_vars


(* Ratings sent while others are being handled: the pickup requests are    *)
(* created and updated by handlers that do not overlap, the create_rating  *)
(* handlers overlap each other.                                            *)
RatingCalls == {RatingCall(id, score) : id \in DOMAIN pickups, score \in FleetScores}

NextRate ==
    \/ CreatePickup(FleetInputs, 2)
    \/ UpdatePickup(DOMAIN pickups, StatusPatches, {AdminToken})
    \/ \E c \in RatingCalls : Begin(c, 0, 0)
    \/ \E c \in BagToSet(calls) : Step(c)

SpecRate == Init /\ [][NextRate]_vars


(* Pricing: one pickup request, created at every distance of Distances     *)
(* with every quantity and every waste type.                               *)
Distances == {0, 1, 5, 333, 1000, 1999, Radius100, Radius100 + 1}

CostInputs ==
    [location : {Location(d) : d \in Distances}, quantity : Quantity,
     waste_type : WasteType]

NextCost ==
    \/ CreatePickup(CostInputs, 1)
    \/ UpdatePickup({1}, CostPatches, {AdminToken})

SpecCost == Init /\ [][NextCost]_vars

(* One pickup request and one driver, every operation, handlers that do    *)
(* not overlap.                                                            *)
NextFrame ==
    \/ CreatePickup(CreateInputs, 1)
    \/ UpdatePickup({1}, StatusPatches, {AdminToken})
    \/ AssignDriver({1}, {AdminToken})
    \/ CreateDriver({AdminToken}, 1)
    \/ UpdateDriverStatus({AdminToken})
    \/ CreateRating(Scores)
    \/ CostPreview(CreateInputs)
    \/ GetPickup
    \/ GetDriver
    \/ GetRating

SpecFrame == Init /\ [][NextFrame]_vars

(* Two pickup requests and one driver, patches of the status and of the    *)
(* cost, ratings: handlers that do not overlap.                            *)
NextPair ==
    \/ CreatePickup(FleetInputs, 2)
    \/ UpdatePickup({1, 2}, StatusPatches \cup CostPatches, {AdminToken})
    \/ AssignDriver({1, 2}, {AdminToken})
    \/ CreateDriver({AdminToken}, 1)
    \/ UpdateDriverStatus({AdminToken})
    \/ CreateRating({5})

SpecPair == Init /\ [][NextPair]_vars

(* The cost function applied directly, as any caller inside the module may *)
(* apply it: to any strings, those of the two enumerations and others.     *)
QuantityArgs == Quantity \cup {"XL"}
WasteTypeArgs == WasteType \cup {"Glass"}

Quote ==
    \E d \in Distances, q \in QuantityArgs, w \in WasteTypeArgs :
        /\ quote' = Some([distance_km |-> d, quantity |-> q, waste_type |-> w,
                          cost |-> calculate_cost(d, q, w)])
        /\ UNCHANGED <<pickups, drivers, ratings, now, utcoffset, calls, started,
                       n_transitions, n_cost_edits, released>>

NextQuote == Quote

SpecQuote == Init /\ [][NextQuote]_vars

(* Sessions: a server in some time zone, a clock that moves, logins, and   *)
(* admin calls that present the token of a login made now or earlier, or   *)
(* a forged one.                                                           *)
Credentials == {"admin", "user"} \X {"admin123", "admin", ""}

Login ==
    \E cred \in Credentials :
        /\ calls = EmptyBag
        /\ Call(LoginCall(cred[1], cred[2]))

(* the instants of the clock up to now *)
Instants == {t \in 0..now : t % (TOKEN_TTL \div 2) = 0}

(* the token the admin's login returned at instant t *)
LoginToken(t) ==
    RunToEnd(Db, LoginCall("admin", "admin123"), t).call.resp.body[1].access_token

IssuedTokens == {LoginToken(t) : t \in Instants}

NextAuth ==
    \/ Tick
    \/ Login
    \/ CreatePickup(FleetInputs, 1)
    \/ UpdatePickup({1}, StatusPatches, IssuedTokens \cup {ForgedToken})
    \/ AssignDriver({1}, IssuedTokens \cup {ForgedToken})
    \/ CreateDriver(IssuedTokens \cup {ForgedToken}, 1)
    \/ UpdateDriverStatus(IssuedTokens \cup {ForgedToken})

SpecAuth == InitAuth /\ [][NextAuth]_vars

----------------------------------------------------------------------------
(* What the properties are stated in *)

(* the outcome of call c run alone from the current state *)
Result(c) == RunToEnd(Db, c, now)

(* a valid admin token: signed with the server's key and not yet expired *)
Authorized(token) == token.signed /\ token.sub = "admin" /\ token.exp > now

(* the error taxonomy, read off the status code and detail of a response *)
Kind(r) ==
    CASE r.status_code = 200 -> "OK"
      [] r.status_code = 401 -> "Unauthorized"
      [] r.status_code = 404 -> "NotFound"
      [] r.status_code = 422 -> "ValidationError"
      [] r.detail = "outside our service area" -> "OutOfServiceArea"
      [] r.detail = "Invalid status transition" -> "InvalidTransition"
      [] r.detail = "Can only assign driver to approved requests" -> "InvalidState"
      [] r.detail = "Can only rate completed pickups" -> "InvalidState"
      [] r.detail = "Driver is not available" -> "DriverUnavailable"
      [] r.detail = "This pickup has already been rated" -> "Conflict"
      [] OTHER -> "Other"

LinearEdges ==
    {<<"Pending", "Approved">>, <<"Approved", "Assigned">>, <<"Assigned", "Completed">>}

WithStatus(patches) == {p \in patches : p.status # None}

Last(seq) == seq[Len(seq)]

----------------------------------------------------------------------------
----------------------------------------------------------------------------
(* C3, as stated: each driver is the driver_id of at most one pickup       *)
(* request that is not Completed.                                          *)
C3_AtMostOneActive ==
    \A d \in DOMAIN drivers : Cardinality(ActiveFor(d)) <= 1

(* C3, amended: as long as set_status has not made Available a driver that *)
(* is the driver_id of a pickup that is not Completed, each driver is the  *)
(* driver_id of at most one pickup request that is not Completed.          *)
C3_AtMostOneActiveUnlessReleased ==
    ~released => \A d \in DOMAIN drivers : Cardinality(ActiveFor(d)) <= 1

(* a driver on its second pickup, set Available after the first was        *)
(* Completed                                                               *)
C3_Witness ==
    /\ ~released
    /\ \E d \in DOMAIN drivers, i, j \in DOMAIN pickups :
        /\ pickups[i].driver_id = Some(d) /\ pickups[i].status = "Completed"
        /\ pickups[j].driver_id = Some(d) /\ pickups[j].status = "Assigned"

----------------------------------------------------------------------------
(* C4: an admin's assign_driver is answered 200 only when the pickup is    *)
(* Approved and the driver Available; after it the pickup is Assigned with *)
(* driver_id the given driver, the driver is Busy, and the status history  *)
(* is the old one with the one entry {Assigned, admin} appended.           *)
C4_AssignDriver ==
    \A id \in RequestIds, d \in DriverIds, token \in Tokens :
        LET r == Result(AssignCall(id, d, token))
        IN  Kind(r.call.resp) = "OK" =>
                /\ Authorized(token)
                /\ id \in DOMAIN pickups /\ pickups[id].status = "Approved"
                /\ d \in DOMAIN drivers /\ drivers[d].status = "Available"
                /\ r.db.pickups[id].status = "Assigned"
                /\ r.db.pickups[id].driver_id = Some(d)
                /\ r.db.drivers[d].status = "Busy"
                /\ r.db.pickups[id].status_history =
                        Append(pickups[id].status_history,
                               StatusHistoryEntry("Assigned", "admin"))

(* a pickup that assign_driver has assigned *)
C4_Witness ==
    \E id \in DOMAIN pickups, d \in DOMAIN drivers :
        /\ pickups[id].status = "Assigned"
        /\ pickups[id].driver_id = Some(d)
        /\ drivers[d].status = "Busy"
        /\ Last(pickups[id].status_history) = StatusHistoryEntry("Assigned", "admin")

----------------------------------------------------------------------------
(* C9: update, assign_driver, driver create and driver set_status called   *)
(* with a token that is not a valid admin token are answered Unauthorized  *)
(* and leave the pickup requests, drivers and ratings as they were, for    *)
(* every argument, unknown ids included.                                   *)
AdminCalls(token) ==
    {UpdateCall(id, patch, token) : id \in RequestIds, patch \in Patches}
        \cup {AssignCall(id, d, token) : id \in RequestIds, d \in DriverIds}
        \cup {CreateDriverCall(token)}
        \cup {DriverStatusCall(d, st, token) : d \in DriverIds, st \in DriverStatus}

----------------------------------------------------------------------------
(* C10: rating create is answered 200 exactly when the pickup exists, is   *)
(* Completed, has no rating yet and the score is in 1..5; otherwise it is  *)
(* answered NotFound (unknown pickup), InvalidState (not Completed),       *)
(* Conflict (already rated) or ValidationError (score out of range), and   *)
(* stores no rating.                                                       *)
C10_RatingCreate ==
    \A id \in RequestIds, score \in Scores :
        LET r == Result(RatingCall(id, score))
            kind == Kind(r.call.resp)
            known == id \in DOMAIN pickups
            completed == known /\ pickups[id].status = "Completed"
            rated == \E i \in DOMAIN ratings : ratings[i].pickup_id = id
            inrange == 1 <= score /\ score <= 5
        IN  /\ kind = "OK" <=> (completed /\ ~rated /\ inrange)
            /\ kind = "OK" => r.db.ratings = Append(ratings, Rating(id, score))
            /\ kind # "OK" =>
                /\ r.db = Db
                /\ kind \in {"NotFound", "InvalidState", "Conflict", "ValidationError"}
                /\ kind = "NotFound" => ~known
                /\ kind = "InvalidState" => known /\ ~completed
                /\ kind = "Conflict" => rated
                /\ kind = "ValidationError" => ~inrange

(* a Completed pickup that has its rating, next to one that is not         *)
(* Completed                                                               *)
C10_Witness ==
    \E i \in DOMAIN ratings, id \in DOMAIN pickups :
        /\ pickups[ratings[i].pickup_id].status = "Completed"
        /\ pickups[id].status # "Completed"
        /\ Kind(Result(RatingCall(ratings[i].pickup_id, 5)).call.resp) = "Conflict"

----------------------------------------------------------------------------
(* C7: handlers that do not overlap.  A call answered 200 that changes the *)
(* status (an update whose patch carries a status, an assign_driver) makes *)
(* the status history longer by exactly one; every other call (refused, or *)
(* without a status) leaves its length as it was; so the length is one     *)
(* plus the number of accepted transitions.                                *)
PickupCalls(id) ==
    {UpdateCall(id, patch, token) : patch \in Patches, token \in Tokens}
        \cup {AssignCall(id, d, token) : d \in DriverIds, token \in Tokens}
        \cup {DriverStatusCall(d, st, AdminToken) : d \in DriverIds, st \in DriverStatus}
        \cup {RatingCall(id, score) : score \in Scores}

ChangesStatus(c) ==
    \/ c.op = "assign_driver"
    \/ c.op = "update_pickup_request" /\ c.patch.status # None

----------------------------------------------------------------------------
(* C8: an update refused with InvalidTransition changes no stored field of *)
(* the pickup request (nor anything else), whatever else the patch         *)
(* carries: status, histories, actual_cost, notes, payment_status and      *)
(* updated_at are as before the call.                                      *)
C8_RefusedUpdateWritesNothing ==
    \A id \in RequestIds, patch \in Patches, token \in Tokens :
        LET r == Result(UpdateCall(id, patch, token))
        IN  Kind(r.call.resp) = "InvalidTransition" => r.db = Db

(* a priced pickup, last stamped before now, and a patch with a refused    *)
(* status that carries another cost, a note and a payment status           *)
C8_Witness ==
    \E id \in DOMAIN pickups, patch \in Patches :
        /\ pickups[id].actual_cost = Some(100)
        /\ pickups[id].notes = None
        /\ pickups[id].payment_status = "Pending"
        /\ pickups[id].updated_at < now
        /\ patch.actual_cost = Some(Some(250))
        /\ patch.notes # None /\ patch.payment_status # None
        /\ Authorized(AdminToken)
        /\ Kind(Result(UpdateCall(id, patch, AdminToken)).call.resp) = "InvalidTransition"

----------------------------------------------------------------------------
(* C2: in every reachable state, overlapping update and assign_driver      *)
(* handlers included, every pickup request has a status history that is    *)
(* not empty and whose last entry carries the current status.              *)
C2_LastEntryIsStatus ==
    \A id \in DOMAIN pickups :
        /\ pickups[id].status_history # <<>>
        /\ Last(pickups[id].status_history).status = pickups[id].status

(* a pickup that an assign_driver and an update, both begun while it was   *)
(* Approved, have both written                                             *)
C2_Witness ==
    \E id \in DOMAIN pickups :
        /\ n_transitions[id] > Len(pickups[id].status_history) - 1
        /\ pickups[id].driver_id # None
        /\ calls = EmptyBag

----------------------------------------------------------------------------
(* C5: two overlapping assign_driver calls for the same Available driver   *)
(* and two Approved pickup requests never both assign it: no driver is the *)
(* driver_id of two pickup requests that are not Completed.                *)
C5_NoDoubleAssignment ==
    \A i, j \in DOMAIN pickups :
        (/\ i # j
         /\ pickups[i].driver_id # None
         /\ pickups[i].driver_id = pickups[j].driver_id)
            => ~(Active(pickups[i]) /\ Active(pickups[j]))

----------------------------------------------------------------------------
(* C6: once the overlapping update calls on a pickup request have all      *)
(* ended, its status history holds one entry for every call answered 200   *)
(* that changed the status, and its price history one entry for every      *)
(* update answered 200 with a non-null actual_cost.                        *)
C6_NoLostAppend ==
    calls = EmptyBag =>
        \A id \in DOMAIN pickups :
            /\ Len(pickups[id].status_history) >= 1 + n_transitions[id]
            /\ Len(pickups[id].price_history) >= n_cost_edits[id]

----------------------------------------------------------------------------
(* C11: in every reachable state, overlapping create_rating handlers for   *)
(* the same pickup included, no two stored ratings have the same           *)
(* pickup_id, and every stored rating names a pickup request that is       *)
(* Completed.                                                              *)
C11_OneRatingPerPickup ==
    /\ \A i, j \in DOMAIN ratings :
            ratings[i].pickup_id = ratings[j].pickup_id => i = j
    /\ \A i \in DOMAIN ratings :
            /\ ratings[i].pickup_id \in DOMAIN pickups
            /\ pickups[ratings[i].pickup_id].status = "Completed"

----------------------------------------------------------------------------
----------------------------------------------------------------------------
(* C13: from a freshly created pickup and a freshly created driver, the    *)
(* calls update(Approved), assign_driver, update(Completed), rating create *)
(* are all answered 200 in that order; and every sequence of update,       *)
(* assign_driver and rating create calls on them that is not a beginning   *)
(* of that workflow (it skips a step, or repeats one out of order) holds a *)
(* call that is refused.                                                   *)
RECURSIVE AllSucceed(_, _)
AllSucceed(db, cs) ==
    \/ cs = <<>>
    \/ LET r == RunToEnd(db, Head(cs), now)
       IN  r.call.resp.status_code = 200 /\ AllSucceed(r.db, Tail(cs))

Workflow(id, d) ==
    <<UpdateCall(id, [NoPatch EXCEPT !.status = Some("Approved")], AdminToken),
      AssignCall(id, d, AdminToken),
      UpdateCall(id, [NoPatch EXCEPT !.status = Some("Completed")], AdminToken),
      RatingCall(id, 5)>>

WorkflowSteps(id, d) ==
    {UpdateCall(id, patch, AdminToken) : patch \in StatusPatches}
        \cup {AssignCall(id, d, AdminToken), RatingCall(id, 5)}

IsPrefix(s, t) == Len(s) <= Len(t) /\ s = SubSeq(t, 1, Len(s))

Fresh(id, d) ==
    /\ pickups[id].status = "Pending"
    /\ Len(pickups[id].status_history) = 1
    /\ drivers[d].status = "Available"
    /\ ActiveFor(d) = {}

WorkflowByUpdate(id) ==
    <<UpdateCall(id, [NoPatch EXCEPT !.status = Some("Approved")], AdminToken),
      UpdateCall(id, [NoPatch EXCEPT !.status = Some("Assigned")], AdminToken),
      UpdateCall(id, [NoPatch EXCEPT !.status = Some("Completed")], AdminToken),
      RatingCall(id, 5)>>

----------------------------------------------------------------------------
(* C14: the estimated cost of a pickup created at distance d (hundredths   *)
(* of a km) is ((d * 10) + (volume_factor * 50)) * waste_surcharge rounded *)
(* to 2 decimals, with the factors of the two tables; distance 0 with      *)
(* Medium/Plastic costs 75.00 and 10 km with Bulk/E-Waste costs 300.00.    *)
(* In units of 1/10000 the formula is (100 d + 5000 vf) * ws with vf and   *)
(* ws in tenths, a whole number of hundredths.                             *)
VolumeFactorTenths ==
    [q \in {"Small", "Medium", "Large", "Bulk"} |->
        CASE q = "Small" -> 10 [] q = "Medium" -> 15 [] q = "Large" -> 20
          [] q = "Bulk" -> 30]

SurchargeTenths ==
    [w \in {"Organic", "Plastic", "Metal", "Mixed", "E-Waste"} |->
        CASE w \in {"Organic", "Plastic", "Metal"} -> 10 [] w = "Mixed" -> 11
          [] w = "E-Waste" -> 12]

C14_EstimatedCost ==
    /\ \A id \in DOMAIN pickups :
        pickups[id].estimated_cost * 100 =
            ((100 * pickups[id].distance_km)
                + (5000 * VolumeFactorTenths[pickups[id].quantity]))
              * SurchargeTenths[pickups[id].waste_type]
    /\ \A in \in CostInputs :
        LET r == Result(CreatePickupCall(in))
        IN  (/\ Kind(r.call.resp) = "OK"
             /\ in.location.km100 = 0
             /\ in.quantity = "Medium" /\ in.waste_type = "Plastic")
                => Last(r.db.pickups).estimated_cost = 7500
    /\ \A in \in CostInputs :
        LET r == Result(CreatePickupCall(in))
        IN  (/\ Kind(r.call.resp) = "OK"
             /\ in.location.km100 = 1000
             /\ in.quantity = "Bulk" /\ in.waste_type = "E-Waste")
                => Last(r.db.pickups).estimated_cost = 30000

(* a stored Bulk/E-Waste pickup at 10 km with its cost of 300.00 *)
C14_Witness ==
    \E id \in DOMAIN pickups :
        /\ pickups[id].distance_km = 1000
        /\ pickups[id].quantity = "Bulk" /\ pickups[id].waste_type = "E-Waste"
        /\ pickups[id].estimated_cost = 30000

----------------------------------------------------------------------------
(* C15: an admin's assign_driver whose pickup request id or driver id is   *)
(* not stored is answered NotFound, whatever the status of the one that is *)
(* stored.                                                                 *)
C15_AssignNotFound ==
    \A id \in RequestIds, d \in DriverIds :
        (id \notin DOMAIN pickups \/ d \notin DOMAIN drivers) =>
            Kind(Result(AssignCall(id, d, AdminToken)).call.resp) = "NotFound"

----------------------------------------------------------------------------
(* C16: where set_status is never called, no state that another handler    *)
(* can read has a pickup request that is Assigned to driver d while driver *)
(* d is still Available.                                                   *)
C16_AssignAtomic ==
    \A id \in DOMAIN pickups, d \in DOMAIN drivers :
        (pickups[id].status = "Assigned" /\ pickups[id].driver_id = Some(d))
            => drivers[d].status # "Available"

----------------------------------------------------------------------------
(* C17: with handlers that do not overlap, the stored actual_cost is null  *)
(* exactly when the price history is empty and is otherwise the cost of    *)
(* its last entry; and an update that changes the stored actual_cost       *)
(* appends exactly one entry, carrying the new value, to the price         *)
(* history.                                                                *)
C17_CostFollowsPriceHistory ==
    \A id \in DOMAIN pickups :
        /\ pickups[id].actual_cost = None <=> pickups[id].price_history = <<>>
        /\ pickups[id].price_history # <<>> =>
                pickups[id].actual_cost = Some(Last(pickups[id].price_history).actual_cost)
        /\ \A patch \in Patches :
            LET r == Result(UpdateCall(id, patch, AdminToken))
                after == r.db.pickups[id]
            IN  after.actual_cost # pickups[id].actual_cost =>
                    /\ after.actual_cost # None
                    /\ after.price_history =
                            Append(pickups[id].price_history,
                                   PriceHistoryEntry(after.actual_cost[1], "admin"))

----------------------------------------------------------------------------
(* C18: in every execution, overlapping update and assign_driver handlers  *)
(* on the same pickup included, no step moves the stored status of a       *)
(* pickup request backward in Pending < Approved < Assigned < Completed,   *)
(* and a Completed pickup stays Completed.                                 *)
Rank(status) ==
    CASE status = "Pending" -> 0 [] status = "Approved" -> 1
      [] status = "Assigned" -> 2 [] status = "Completed" -> 3

C18_StatusNeverBackward ==
    [][\A id \in DOMAIN pickups :
            /\ Rank(pickups'[id].status) >= Rank(pickups[id].status)
            /\ pickups[id].status = "Completed" => pickups'[id].status = "Completed"]_vars

----------------------------------------------------------------------------
(* C19: in every step of every execution, overlapping update and           *)
(* assign_driver handlers included, the status history and the price       *)
(* history of a pickup request before the step are the beginning of those  *)
(* after the step: no entry is removed, reordered or replaced.             *)
C19_HistoriesAppendOnly ==
    [][\A id \in DOMAIN pickups :
            /\ IsPrefix(pickups[id].status_history, pickups'[id].status_history)
            /\ IsPrefix(pickups[id].price_history, pickups'[id].price_history)]_vars

----------------------------------------------------------------------------
(* C20: no call (update with any patch, assign_driver, rating create,      *)
(* driver create and set_status, cost preview, pickup create) changes the  *)
(* id, the distance_km or the estimated_cost of a stored pickup request,   *)
(* or removes one.                                                         *)
FrameCalls ==
    {UpdateCall(id, patch, AdminToken) : id \in RequestIds, patch \in Patches}
        \cup {AssignCall(id, d, AdminToken) : id \in RequestIds, d \in DriverIds}
        \cup {RatingCall(id, score) : id \in RequestIds, score \in Scores}
        \cup {CreateDriverCall(AdminToken)}
        \cup {DriverStatusCall(d, st, AdminToken) : d \in DriverIds, st \in DriverStatus}
        \cup {CostPreviewCall(in) : in \in CreateInputs}
        \cup {CreatePickupCall(in) : in \in CreateInputs}

C20_CreationFieldsFixed ==
    \A c \in FrameCalls :
        LET after == Result(c).db.pickups
        IN  /\ Len(after) >= Len(pickups)
            /\ \A id \in DOMAIN pickups :
                /\ after[id].id = pickups[id].id
                /\ after[id].distance_km = pickups[id].distance_km
                /\ after[id].estimated_cost = pickups[id].estimated_cost

(* a pickup created at 10 km as Bulk/E-Waste that was assigned, Completed  *)
(* and rated later on, with the estimate of its creation, in a state where *)
(* a priced patch would be accepted                                        *)
C20_Witness ==
    \E id \in DOMAIN pickups, patch \in Patches :
        /\ pickups[id].status = "Completed"
        /\ pickups[id].driver_id # None
        /\ \E i \in DOMAIN ratings : ratings[i].pickup_id = id
        /\ pickups[id].distance_km = 1000
        /\ pickups[id].estimated_cost = 30000
        /\ patch.actual_cost = Some(Some(250))
        /\ Result(UpdateCall(id, patch, AdminToken)).db.pickups[id].actual_cost = Some(250)

----------------------------------------------------------------------------
(* C21: a cost preview leaves the pickup requests, drivers and ratings as  *)
(* they were, for every input; for a location outside the radius it        *)
(* returns in_service_area false and no estimated cost, for one inside it  *)
(* returns in_service_area true with a distance and an estimated cost.     *)
C21_CostPreview ==
    \A in \in CostInputs :
        LET r == Result(CostPreviewCall(in))
            body == r.call.resp.body
        IN  /\ r.db = Db
            /\ body # None
            /\ IF in.location.km100 > 20 * 100
               THEN /\ body[1].in_service_area = FALSE
                    /\ body[1].estimated_cost = None
               ELSE /\ body[1].in_service_area = TRUE
                    /\ body[1].distance_km # None
                    /\ body[1].estimated_cost # None

(* previews asked where a pickup request, a driver and a rating are        *)
(* stored: one on the edge of the area, one just outside                   *)
C21_Witness ==
    /\ pickups # <<>> /\ drivers # <<>> /\ ratings # <<>>
    /\ \E in, out \in CostInputs :
        /\ in.location.km100 = 20 * 100
        /\ Result(CostPreviewCall(in)).call.resp.body[1].in_service_area = TRUE
        /\ out.location.km100 = 20 * 100 + 1
        /\ Result(CostPreviewCall(out)).call.resp.body[1].in_service_area = FALSE

----------------------------------------------------------------------------
(* C22: an admin's set_status on a stored driver is answered 200 and       *)
(* stores the requested status, whatever the driver's status and whether   *)
(* or not an active pickup request names the driver; it changes no pickup  *)
(* request, no rating and no other driver; on an id that is not stored it  *)
(* is answered NotFound and changes nothing.                               *)
C22_SetStatus ==
    \A d \in DriverIds, st \in {"Available", "Busy", "Offline"} :
        LET r == Result(DriverStatusCall(d, st, AdminToken))
        IN  IF d \in DOMAIN drivers
            THEN /\ Kind(r.call.resp) = "OK"
                 /\ r.db.drivers[d].status = st
                 /\ DOMAIN r.db.drivers = DOMAIN drivers
                 /\ \A e \in DOMAIN drivers : e # d => r.db.drivers[e] = drivers[e]
                 /\ r.db.pickups = pickups
                 /\ r.db.ratings = ratings
            ELSE /\ Kind(r.call.resp) = "NotFound"
                 /\ r.db = Db

(* a driver set to Available while an Assigned pickup names it, next to    *)
(* another driver                                                          *)
C22_Witness ==
    /\ released
    /\ Len(drivers) = 2
    /\ \E d \in DOMAIN drivers :
        /\ ActiveFor(d) # {}
        /\ drivers[d].status = "Available"

----------------------------------------------------------------------------
(* C27: an admin's driver create stores one more driver, whose status is   *)
(* Available, and changes no stored driver and no pickup request; the new  *)
(* driver can be assigned to an Approved pickup request at once.           *)
C27_CreateDriver ==
    LET r == Result(CreateDriverCall(AdminToken))
        new == Len(drivers) + 1
    IN  /\ Kind(r.call.resp) = "OK"
        /\ Len(r.db.drivers) = new
        /\ SubSeq(r.db.drivers, 1, Len(drivers)) = drivers
        /\ r.db.drivers[new].status = "Available"
        /\ r.db.pickups = pickups
        /\ r.db.ratings = ratings
        /\ \A id \in DOMAIN pickups :
            pickups[id].status = "Approved" =>
                LET a == RunToEnd(r.db, AssignCall(id, new, AdminToken), now)
                IN  /\ Kind(a.call.resp) = "OK"
                    /\ a.db.pickups[id].driver_id = Some(new)

(* an Approved pickup request waiting while the one stored driver is Busy  *)
(* on another                                                              *)
C27_Witness ==
    \E id, other \in DOMAIN pickups, d \in DOMAIN drivers :
        /\ pickups[id].status = "Approved"
        /\ pickups[other].status = "Assigned"
        /\ pickups[other].driver_id = Some(d)
        /\ drivers[d].status = "Busy"

----------------------------------------------------------------------------
(* C23: an admin-only call is authorized exactly when its token is one     *)
(* that a login with the admin's credential pair returned less than 24     *)
(* hours (86400 s) ago; a login with another pair returns no token and is  *)
(* answered Unauthorized; a forged or an expired token is answered         *)
(* Unauthorized.                                                           *)
C23_Authorization ==
    /\ \A t \in Instants : \A c \in AdminCalls(LoginToken(t)) :
            Kind(Result(c).call.resp) # "Unauthorized" <=> now - t < 86400
    /\ \A cred \in Credentials :
            LET r == Result(LoginCall(cred[1], cred[2])).call.resp
            IN  IF cred = <<"admin", "admin123">>
                THEN Kind(r) = "OK" /\ r.body # None
                ELSE Kind(r) = "Unauthorized" /\ r.body = None
    /\ \A token \in {ForgedToken, ExpiredToken} : \A c \in AdminCalls(token) :
            Kind(Result(c).call.resp) = "Unauthorized"

----------------------------------------------------------------------------
(* C24: two failures of different kinds of the taxonomy always differ in   *)
(* a field of the response other than the message (detail): the status     *)
(* code or the body.                                                       *)
C24_KindsTellApart ==
    \A c1 \in FrameCalls : \A c2 \in FrameCalls :
        LET r1 == Result(c1).call.resp
            r2 == Result(c2).call.resp
        IN  (Kind(r1) # "OK" /\ Kind(r2) # "OK" /\ Kind(r1) # Kind(r2))
                => (r1.status_code # r2.status_code \/ r1.body # r2.body)

----------------------------------------------------------------------------
(* C25: a well-formed call keyed by an id that is not stored is answered   *)
(* NotFound and leaves the database as it was: get and update (by an       *)
(* admin, with any patch) of an unknown pickup, get and set_status (by an  *)
(* admin) of an unknown driver, get of the rating of a pickup that has     *)
(* none, and a rating with a score from 1 to 5 for an unknown pickup.      *)
UnknownIdCalls ==
    {GetPickupCall(id) : id \in RequestIds \ DOMAIN pickups}
        \cup {UpdateCall(id, patch, AdminToken) :
                id \in RequestIds \ DOMAIN pickups, patch \in Patches}
        \cup {GetDriverCall(d) : d \in DriverIds \ DOMAIN drivers}
        \cup {DriverStatusCall(d, st, AdminToken) :
                d \in DriverIds \ DOMAIN drivers, st \in DriverStatus}
        \cup {GetRatingCall(id) : id \in {i \in RequestIds :
                \A k \in DOMAIN ratings : ratings[k].pickup_id # i}}
        \cup {RatingCall(id, score) :
                id \in RequestIds \ DOMAIN pickups, score \in 1..5}

C25_NotFound ==
    \A c \in UnknownIdCalls :
        /\ Kind(Result(c).call.resp) = "NotFound"
        /\ Result(c).db = Db

(* a pickup, a driver and a rating are stored; the pickup that is stored   *)
(* is found, its neighbour is not, and the call set covers all six cases   *)
C25_Witness ==
    /\ Len(pickups) = 1 /\ Len(drivers) = 1 /\ Len(ratings) = 1
    /\ Kind(Result(GetPickupCall(1)).call.resp) = "OK"
    /\ Kind(Result(GetRatingCall(1)).call.resp) = "OK"
    /\ Kind(Result(GetRatingCall(2)).call.resp) = "NotFound"
    /\ Kind(Result(UpdateCall(2, NoPatch, AdminToken)).call.resp) = "NotFound"
    /\ Cardinality({c.op : c \in UnknownIdCalls}) = 6

----------------------------------------------------------------------------
(* C26: with no call in flight, stats returns for each status the number   *)
(* of stored pickup requests in that status, and a total that is the sum   *)
(* of the four counts and the number of stored pickup requests.            *)
InStatus(s) == Cardinality({i \in DOMAIN pickups : pickups[i].status = s})

C26_Stats ==
    LET r == Result(StatsCall)
        stats == r.call.resp.body[1]
    IN  /\ Kind(r.call.resp) = "OK"
        /\ r.db = Db
        /\ stats.pending = InStatus("Pending")
        /\ stats.approved = InStatus("Approved")
        /\ stats.assigned = InStatus("Assigned")
        /\ stats.completed = InStatus("Completed")
        /\ stats.total = stats.pending + stats.approved + stats.assigned + stats.completed
        /\ stats.total = Len(pickups)

(* three pickups in three different statuses, one of them Completed *)
C26_Witness ==
    /\ Len(pickups) = 3
    /\ InStatus("Completed") = 1 /\ InStatus("Approved") = 1 /\ InStatus("Pending") = 1
    /\ Result(StatsCall).call.resp.body[1].total = 3

----------------------------------------------------------------------------
(* C28: the estimated cost depends on (distance, quantity, waste type)     *)
(* alone.  In every reachable state and for every input within the         *)
(* service area, the pickup that create stores has the estimated_cost and  *)
(* distance_km that create stores for the same input in the empty          *)
(* database at time 0, a second create of the same input right after the   *)
(* first stores the same two values, and cost preview returns the same     *)
(* two values.                                                             *)
EmptyDb == Database(<<>>, <<>>, <<>>)

(* the pickup request a create of input in stores in database db *)
Created(db, in, t) == Last(RunToEnd(db, CreatePickupCall(in), t).db.pickups)

InArea == {in \in CostInputs : in.location.km100 <= 20 * 100}

C28_CostDeterministic ==
    \A in \in InArea :
        LET first == Created(Db, in, now)
            again == Created(RunToEnd(Db, CreatePickupCall(in), now).db, in, now)
            fresh == Created(EmptyDb, in, 0)
            preview == Result(CostPreviewCall(in)).call.resp.body[1]
        IN  /\ first.estimated_cost = fresh.estimated_cost
            /\ first.distance_km = fresh.distance_km
            /\ again.estimated_cost = first.estimated_cost
            /\ again.distance_km = first.distance_km
            /\ preview.estimated_cost = Some(first.estimated_cost)
            /\ preview.distance_km = Some(first.distance_km)

(* a pickup, a driver and a rating are stored, and the stored pickup has   *)
(* the cost and the distance that the preview of its input returns now     *)
C28_Witness ==
    /\ Len(pickups) = 1 /\ Len(drivers) = 1 /\ Len(ratings) = 1
    /\ \E in \in CreateInputs :
        LET preview == Result(CostPreviewCall(in)).call.resp.body[1]
        IN  /\ in.location.km100 = 1000
            /\ preview.estimated_cost = Some(pickups[1].estimated_cost)
            /\ preview.distance_km = Some(pickups[1].distance_km)
            /\ pickups[1].estimated_cost = 30000

----------------------------------------------------------------------------
(* C29: calculate_cost with a quantity that is not in VOLUME_FACTORS       *)
(* returns the cost of Small (factor 1.0), and with a waste type that is   *)
(* not in WASTE_SURCHARGES the cost of Organic (surcharge 1.0): a cost,    *)
(* not an error, at every distance.                                        *)
C29_UnknownKeysDefault ==
    quote # None =>
        LET d == quote[1].distance_km
            q == IF quote[1].quantity \in Quantity THEN quote[1].quantity ELSE "Small"
            w == IF quote[1].waste_type \in WasteType
                 THEN quote[1].waste_type ELSE "Organic"
        IN  /\ quote[1].cost \in Nat
            /\ quote[1].cost = calculate_cost(d, q, w)
            /\ quote[1].cost = RoundHalfEven(((d * 10 * 10)
                                    + (VolumeFactorTenths[q] * 50 * 100))
                                        * SurchargeTenths[w], 100)

(* 10 km, an unknown quantity and an unknown waste type: 150.00 *)
C29_Witness ==
    /\ quote # None
    /\ quote[1].distance_km = 1000
    /\ quote[1].quantity \notin Quantity
    /\ quote[1].waste_type \notin WasteType
    /\ quote[1].cost = 15000

----------------------------------------------------------------------------
(* C30: in every state, also between the steps of interleaved update and   *)
(* assign_driver handlers, the statuses of a pickup's status history are a *)
(* non-empty beginning of Pending, Approved, Assigned, Completed.          *)
StatusesOf(history) == [k \in 1..Len(history) |-> history[k].status]

C30_HistoryIsPrefix ==
    \A i \in DOMAIN pickups :
        LET statuses == StatusesOf(pickups[i].status_history)
        IN  /\ Len(statuses) >= 1
            /\ Len(statuses) <= 4
            /\ IsPrefix(statuses, <<"Pending", "Approved", "Assigned", "Completed">>)

(* a write from a stale read has happened: more calls that changed the     *)
(* status were answered 200 than the history has entries after Pending,    *)
(* while another call is still in flight                                   *)
C30_Witness ==
    \E i \in DOMAIN pickups :
        /\ n_transitions[i] > Len(pickups[i].status_history) - 1
        /\ calls # EmptyBag

----------------------------------------------------------------------------
(* C31: completing a pickup does not release its driver.  An update that   *)
(* is answered 200 leaves every driver as it was; no call other than       *)
(* set_status makes a Busy driver anything but Busy; and an assign_driver  *)
(* that names a Busy driver is never answered 200.                         *)
NotSetStatusCalls ==
    {UpdateCall(id, patch, AdminToken) : id \in RequestIds, patch \in StatusPatches}
        \cup {AssignCall(id, d, AdminToken) : id \in RequestIds, d \in DriverIds}
        \cup {RatingCall(id, score) : id \in RequestIds, score \in FleetScores}
        \cup {CreatePickupCall(in) : in \in FleetInputs}
        \cup {CreateDriverCall(AdminToken), StatsCall}

BusyDrivers(collection) == {d \in DOMAIN collection : collection[d].status = "Busy"}

C31_CompletionKeepsDriverBusy ==
    /\ \A c \in NotSetStatusCalls :
        /\ c.op = "update_pickup_request" => Result(c).db.drivers = drivers
        /\ BusyDrivers(drivers) \subseteq BusyDrivers(Result(c).db.drivers)
    /\ \A id \in RequestIds, d \in BusyDrivers(drivers) :
        Kind(Result(AssignCall(id, d, AdminToken)).call.resp) # "OK"

(* a pickup was completed, its driver is still Busy with no active pickup  *)
(* left, and an Approved pickup cannot get that driver                     *)
C31_Witness ==
    \E i \in DOMAIN pickups, j \in DOMAIN pickups, d \in DOMAIN drivers :
        /\ pickups[i].status = "Completed" /\ pickups[i].driver_id = Some(d)
        /\ drivers[d].status = "Busy"
        /\ ActiveFor(d) = {}
        /\ pickups[j].status = "Approved"
        /\ Kind(Result(AssignCall(j, d, AdminToken)).call.resp) = "DriverUnavailable"

----------------------------------------------------------------------------
(* C32, as stated: every pickup request whose status is Assigned or        *)
(* Completed has a driver_id that names a stored driver.                   *)
C32_AssignedHasDriver ==
    \A i \in DOMAIN pickups :
        pickups[i].status \in {"Assigned", "Completed"}
            => /\ pickups[i].driver_id # None
               /\ pickups[i].driver_id[1] \in DOMAIN drivers

(* C32, amended: a pickup gets its driver_id from assign_driver alone.  An *)
(* assign_driver answered 200 leaves the pickup Assigned with the named,   *)
(* stored driver as driver_id; an update answered 200, the one from        *)
(* Approved to Assigned included, leaves driver_id as it was, so a pickup  *)
(* moved to Assigned by update is Assigned, and later Completed, with a    *)
(* null driver_id; a driver_id that is not null names a stored driver.     *)
C32_DriverFromAssignOnly ==
    /\ \A i \in DOMAIN pickups :
        pickups[i].driver_id # None => pickups[i].driver_id[1] \in DOMAIN drivers
    /\ \A id \in RequestIds, d \in DriverIds :
        LET r == Result(AssignCall(id, d, AdminToken))
        IN  Kind(r.call.resp) = "OK"
                => /\ d \in DOMAIN drivers
                   /\ r.db.pickups[id].status = "Assigned"
                   /\ r.db.pickups[id].driver_id = Some(d)
    /\ \A id \in RequestIds, patch \in StatusPatches :
        LET r == Result(UpdateCall(id, patch, AdminToken))
        IN  Kind(r.call.resp) = "OK"
                => r.db.pickups[id].driver_id = pickups[id].driver_id
    /\ \A id \in DOMAIN pickups :
        LET r == Result(UpdateCall(id, [NoPatch EXCEPT !.status = Some("Assigned")],
                                   AdminToken))
        IN  Kind(r.call.resp) = "OK"
                => /\ pickups[id].status = "Approved"
                   /\ r.db.pickups[id].status = "Assigned"
                   /\ r.db.pickups[id].driver_id = None

(* one pickup completed with no driver, by updates alone, and one pickup   *)
(* Assigned to a stored driver by assign_driver                            *)
C32_Witness ==
    \E i \in DOMAIN pickups, j \in DOMAIN pickups, d \in DOMAIN drivers :
        /\ pickups[i].status = "Completed" /\ pickups[i].driver_id = None
        /\ pickups[j].status = "Assigned" /\ pickups[j].driver_id = Some(d)

----------------------------------------------------------------------------
(* C33: a pickup request with a driver_id is Assigned or Completed; no     *)
(* call changes a driver_id that is set, to another driver or to null; and *)
(* an assign_driver on a pickup that has a driver_id is answered           *)
(* InvalidState, whichever driver it names.                                *)
FleetCalls ==
    NotSetStatusCalls
        \cup {DriverStatusCall(d, st, AdminToken) : d \in DriverIds, st \in DriverStatus}

----------------------------------------------------------------------------
(* C34: an update answered 200 changes only the pickup it names, and of    *)
(* that pickup only the fields the patch names, the history of a named     *)
(* status or cost, and the updated_at stamp: without status the status and *)
(* its history stay, without actual_cost the actual_cost and the price     *)
(* history stay, notes and payment_status stay unless named, driver_id     *)
(* always stays, and so do all other pickups, all drivers and all ratings. *)
(* An assign_driver answered 200 changes of the pickup it names only       *)
(* driver_id, status, status_history and updated_at, of the driver it      *)
(* names only the status, and nothing else.                                *)
OthersSame(old, new, id) ==
    /\ Len(new) = Len(old)
    /\ \A j \in DOMAIN old : j # id => new[j] = old[j]

C34_Frame ==
    /\ \A id \in DOMAIN pickups, patch \in Patches :
        LET r == Result(UpdateCall(id, patch, AdminToken))
            old == pickups[id]
            new == r.db.pickups[id]
        IN  Kind(r.call.resp) = "OK"
                => /\ patch.status = None
                        => /\ new.status = old.status
                           /\ new.status_history = old.status_history
                   /\ patch.actual_cost = None
                        => /\ new.actual_cost = old.actual_cost
                           /\ new.price_history = old.price_history
                   /\ patch.notes = None => new.notes = old.notes
                   /\ patch.payment_status = None
                        => new.payment_status = old.payment_status
                   /\ new.driver_id = old.driver_id
                   /\ [new EXCEPT !.status = old.status,
                                  !.status_history = old.status_history,
                                  !.actual_cost = old.actual_cost,
                                  !.price_history = old.price_history,
                                  !.notes = old.notes,
                                  !.payment_status = old.payment_status,
                                  !.updated_at = old.updated_at] = old
                   /\ OthersSame(pickups, r.db.pickups, id)
                   /\ r.db.drivers = drivers
                   /\ r.db.ratings = ratings
    /\ \A id \in RequestIds, d \in DriverIds :
        LET r == Result(AssignCall(id, d, AdminToken))
        IN  Kind(r.call.resp) = "OK"
                => /\ [r.db.pickups[id] EXCEPT
                            !.driver_id = pickups[id].driver_id,
                            !.status = pickups[id].status,
                            !.status_history = pickups[id].status_history,
                            !.updated_at = pickups[id].updated_at] = pickups[id]
                   /\ [r.db.drivers[d] EXCEPT !.status = drivers[d].status] = drivers[d]
                   /\ OthersSame(pickups, r.db.pickups, id)
                   /\ OthersSame(drivers, r.db.drivers, d)
                   /\ r.db.ratings = ratings

(* two pickups, a driver and a rating are stored; pickup 1 went through    *)
(* assign_driver, updates and two cost edits while pickup 2 is as it was   *)
(* created, and a patch of notes alone is accepted for pickup 2            *)
C34_Witness ==
    /\ Len(pickups) = 2 /\ Len(drivers) = 1 /\ Len(ratings) = 1
    /\ pickups[1].status = "Completed" /\ pickups[1].driver_id = Some(1)
    /\ Len(pickups[1].price_history) = 2
    /\ drivers[1].status = "Busy"
    /\ pickups[2].status = "Pending" /\ pickups[2].status_history = <<pickups[2].status_history[1]>>
    /\ LET r == Result(UpdateCall(2, [NoPatch EXCEPT !.notes = Some("note")], AdminToken))
       IN  /\ Kind(r.call.resp) = "OK"
           /\ r.db.pickups[2].notes # pickups[2].notes
           /\ r.db.pickups[1] = pickups[1]

====
